---- MODULE Spec2Model ----
(***************************************************************************)
(* MiBudget: offline-first synchronisation.                                *)
(*   server : AtomicDatabase.bulkSync / getSyncData behind POST /api/sync  *)
(*   client : MiBudgetDatabase (tables, outbox, syncState) and SyncEngine  *)
(* Timestamps are small integers; 0 marks "no record" (the schema makes    *)
(* every updated_at positive).                                             *)
(***************************************************************************)
EXTENDS Integers, Sequences, FiniteSets, TLC

VARIABLES
  db,            \* server: AtomicDatabase.db.data, per kind a table id -> record
  call,          \* the inputs and outputs of one bulkSync call (SpecSrv only)
  clock,         \* real time, in ticks of one millisecond
  skew,          \* per machine, how far its clock is ahead of real time
  local,         \* client: the Dexie entity tables
  outbox,        \* client: the outbox table, in primary-key order
  lastSync,      \* client: syncState.lastSync, the cursor
  isSyncing,     \* SyncEngine.isSyncing
  round,         \* the locals of the sync() call in progress
  net,           \* the request or response of the round in progress
  retryTimeout,  \* SyncEngine.retryTimeout: the options of the pending retry
  result,        \* what the sync() call that returned in the last step returned
  activeRounds,  \* rounds started and not yet finished
  fails,         \* failures injected so far
  scenario       \* the clients that act and the failures allowed

vars == <<db, call, clock, skew, local, outbox, lastSync, isSyncing, round, net,
          retryTimeout, result, activeRounds, fails, scenario>>

clientVars == <<skew, local, outbox, lastSync, isSyncing, round, net,
                retryTimeout, result, activeRounds, fails, scenario>>

\* ------------------------------------------------------------------ bounds
NumIds == 2
MaxTime == 3
MaxBatch == 2
MaxSkew == 1
MaxClock == 2
MaxMut == 2
MaxFails == 1
MaxFailsOne == 3

\* ------------------------------------------------------------------ data
Kinds == {"settings", "categories", "transactions", "budgets", "goals"}
ListKinds == Kinds \ {"settings"}

\* the fixed id of the settings singleton ('default')
DefaultId == 0
Ids == 1..NumIds
AllIds == {DefaultId} \cup Ids
IdsOf(kind) == IF kind = "settings" THEN {DefaultId} ELSE Ids

Times == 1..MaxTime

\* a stored record, keyed by its id in a table; NoRec is the absent record
\* a value names the write that produced it
NoVal == <<"none", 0>>
NoRec == [val |-> NoVal, updated_at |-> 0, deleted |-> FALSE]
EmptyTable == [i \in AllIds |-> NoRec]
EmptyDb == [k \in Kinds |-> EmptyTable]
EmptyPush == [k \in Kinds |-> <<>>]

\* a record travelling in a push or a pull carries its id
Item(i, r) == [id |-> i, val |-> r.val, updated_at |-> r.updated_at, deleted |-> r.deleted]
RecOf(item) == [val |-> item.val, updated_at |-> item.updated_at, deleted |-> item.deleted]

\* ------------------------------------------------------------------ server
\* { ...incoming, updated_at: serverTime }
Stamp(item, serverTime) == [val |-> item.val, updated_at |-> serverTime, deleted |-> item.deleted]

Conflict(type, item, existing) ==
  [type |-> type, id |-> item.id, reason |-> "server_newer",
   clientTime |-> item.updated_at, serverTime |-> existing.updated_at]

\* the entity kinds whose loop pushes a conflict entry when it rejects
ReportsConflict(kind) == kind \in {"settings", "categories", "transactions"}

ConflictType(kind) ==
  CASE kind = "settings" -> "settings"
    [] kind = "categories" -> "category"
    [] kind = "transactions" -> "transaction"
    [] OTHER -> kind

\* comparison reversed: the stale record wins
ServerNewer_reversed(existing, item) == existing.updated_at < item.updated_at

\* tie treated as a conflict
ServerNewer_orEqual(existing, item) == existing.updated_at >= item.updated_at

\* the stale test of every branch of bulkSync: existing.updated_at > incoming.updated_at
ServerNewer(existing, item) == existing.updated_at > item.updated_at

\* syncSettings that re-stamps the stored settings on a request that pushes none
syncSettings_touch(table, items, serverTime) ==
  IF items = <<>>
  THEN [table |-> [i \in AllIds |-> IF table[i] # NoRec THEN Stamp(Item(i, table[i]), serverTime)
                                    ELSE NoRec],
        conflicts |-> <<>>]
  ELSE LET newSettings == items[1]
           present == {i \in AllIds : table[i] # NoRec}
           existing == IF present = {} THEN NoRec ELSE table[CHOOSE i \in present : TRUE]
       IN IF existing # NoRec /\ ServerNewer(existing, newSettings)
          THEN [table |-> table,
                conflicts |-> <<Conflict(ConflictType("settings"), newSettings, existing)>>]
          ELSE [table |-> [i \in AllIds |-> IF i = newSettings.id
                                            THEN Stamp(newSettings, serverTime)
                                            ELSE NoRec],
                conflicts |-> <<>>]

\* bulkSync, settings: only data.settings[0] is looked at; the singleton is replaced
syncSettings(table, items, serverTime) ==
  IF items = <<>>
  THEN [table |-> table, conflicts |-> <<>>]
  ELSE LET newSettings == items[1]
           present == {i \in AllIds : table[i] # NoRec}
           existing == IF present = {} THEN NoRec ELSE table[CHOOSE i \in present : TRUE]
       IN IF existing # NoRec /\ ServerNewer(existing, newSettings)
          THEN [table |-> table,
                conflicts |-> <<Conflict(ConflictType("settings"), newSettings, existing)>>]
          ELSE [table |-> [i \in AllIds |-> IF i = newSettings.id
                                            THEN Stamp(newSettings, serverTime)
                                            ELSE NoRec],
                conflicts |-> <<>>]

\* the per-record loop giving up the rest of the batch at the first rejected record
RECURSIVE syncList_abortOnConflict(_, _, _, _)
syncList_abortOnConflict(kind, table, items, serverTime) ==
  IF items = <<>>
  THEN [table |-> table, conflicts |-> <<>>]
  ELSE LET item == Head(items)
           existing == table[item.id]
           rejected == existing # NoRec /\ ServerNewer(existing, item)
           table1 == IF rejected THEN table
                     ELSE [table EXCEPT ![item.id] = Stamp(item, serverTime)]
           conflicts1 == IF rejected /\ ReportsConflict(kind)
                         THEN <<Conflict(ConflictType(kind), item, existing)>>
                         ELSE <<>>
           rest == IF rejected THEN [table |-> table1, conflicts |-> <<>>]
                   ELSE syncList_abortOnConflict(kind, table1, Tail(items), serverTime)
       IN [table |-> rest.table, conflicts |-> conflicts1 \o rest.conflicts]

\* bulkSync, one of the four per-record loops (categories, transactions, budgets, goals)
RECURSIVE syncList(_, _, _, _)
syncList(kind, table, items, serverTime) ==
  IF items = <<>>
  THEN [table |-> table, conflicts |-> <<>>]
  ELSE LET item == Head(items)
           existing == table[item.id]
           rejected == existing # NoRec /\ ServerNewer(existing, item)
           table1 == IF rejected THEN table
                     ELSE [table EXCEPT ![item.id] = Stamp(item, serverTime)]
           conflicts1 == IF rejected /\ ReportsConflict(kind)
                         THEN <<Conflict(ConflictType(kind), item, existing)>>
                         ELSE <<>>
           rest == syncList(kind, table1, Tail(items), serverTime)
       IN [table |-> rest.table, conflicts |-> conflicts1 \o rest.conflicts]

syncKind(kind, table, items, serverTime) ==
  IF kind = "settings" THEN syncSettings(table, items, serverTime)
  ELSE syncList(kind, table, items, serverTime)

\* AtomicDatabase.bulkSync: the operation run inside atomicWrite
bulkSync(store, data, serverTime) ==
  LET out == [k \in Kinds |-> syncKind(k, store[k], data[k], serverTime)]
  IN [db |-> [k \in Kinds |-> out[k].table],
      serverTime |-> serverTime,
      conflicts |-> out["settings"].conflicts \o out["categories"].conflicts
                    \o out["transactions"].conflicts \o out["budgets"].conflicts
                    \o out["goals"].conflicts]

\* the pull that leaves the tombstones out
getSyncData_liveOnly(store, since) ==
  [k \in Kinds |-> {Item(i, store[k][i]) :
                      i \in {j \in AllIds : store[k][j].updated_at > since /\ ~store[k][j].deleted}}]

\* getSyncData with the cursor comparison made inclusive
getSyncData_orEqual(store, since) ==
  [k \in Kinds |-> {Item(i, store[k][i]) : i \in {j \in AllIds : store[k][j].updated_at >= since}}]

\* AtomicDatabase.getSyncData: per kind, the records with updated_at > since
getSyncData(store, since) ==
  [k \in Kinds |-> {Item(i, store[k][i]) : i \in {j \in AllIds : store[k][j].updated_at > since}}]

\* ------------------------------------------------------------------ client storage
Clients == {"c1", "c2"}
Machines == Clients \cup {"server"}

\* now() of the shared package: Date.now() on the machine that runs it
now(c) == clock + skew[c]
serverNow == clock + skew["server"]

\* the entity kinds the clients of the system specification write
MutKinds == {"transactions"}
\* the value of client c's next write
NextVal(c) == <<c, Len(outbox[c]) + 1>>
Muts == Cardinality(UNION {{c} \X DOMAIN outbox[c] : c \in Clients})

EmptyPull == [k \in Kinds |-> {}]
NoCall == [kind |-> "none", push |-> EmptyPush, pre |-> EmptyDb, conflicts |-> <<>>, done |-> FALSE]
NoTimer == -1
NoRound == [auto |-> FALSE, maxRetries |-> 0, pullOnly |-> FALSE, items |-> <<>>]
NoResult == [client |-> "none", outcome |-> "none"]
NoNet == [stage |-> "none", since |-> 0, push |-> EmptyPush, serverTime |-> 0,
          conflicts |-> <<>>, pull |-> EmptyPull]

\* outbox.add: the new row lands where its generated primary key sorts
enqueue(box, pos, entry) == SubSeq(box, 1, pos - 1) \o <<entry>> \o SubSeq(box, pos, Len(box))

OutboxItem(c, kind, operation, item) ==
  [id |-> Len(outbox[c]) + 1, entity |-> kind, operation |-> operation, payload |-> item,
   createdAt |-> now(c), synced |-> FALSE, retryCount |-> 0, failed |-> 0]

\* no rollback: what was written before the failure stays
transaction_noRollback(before, after, failed) ==
  IF failed THEN [local |-> after.local, outbox |-> before.outbox] ELSE after

\* Dexie transaction('rw', [table, outbox], ...): all of the writes, or none
transaction(before, after, failed) == IF failed THEN before ELSE after

createWithOutbox(c, kind, item, pos, failed) ==
  transaction([local |-> local[c], outbox |-> outbox[c]],
              [local |-> [local[c] EXCEPT ![kind][item.id] = RecOf(item)],
               outbox |-> enqueue(outbox[c], pos, OutboxItem(c, kind, "create", item))],
              failed)

updateWithOutbox(c, kind, id, updates, pos, failed) ==
  LET existing == local[c][kind][id]
      updated == [val |-> updates, updated_at |-> now(c), deleted |-> existing.deleted]
  IN transaction([local |-> local[c], outbox |-> outbox[c]],
                 [local |-> [local[c] EXCEPT ![kind][id] = updated],
                  outbox |-> enqueue(outbox[c], pos, OutboxItem(c, kind, "update", Item(id, updated)))],
                 failed)

deleteWithOutbox(c, kind, id, pos, failed) ==
  LET existing == local[c][kind][id]
      updated == [val |-> existing.val, updated_at |-> now(c), deleted |-> TRUE]
  IN transaction([local |-> local[c], outbox |-> outbox[c]],
                 [local |-> [local[c] EXCEPT ![kind][id] = updated],
                  outbox |-> enqueue(outbox[c], pos, OutboxItem(c, kind, "delete", Item(id, updated)))],
                 failed)

\* outbox.where('synced').equals(0): the rows not yet synced, in primary-key order
getUnsyncedItems(box) == SelectSeq(box, LAMBDA e : ~e.synced)

\* marks every unsynced row, not the pushed ones
markAsSynced_all(box, outboxIds) ==
  [p \in 1..Len(box) |-> [box[p] EXCEPT !.synced = TRUE]]

markAsSynced(box, outboxIds) ==
  [p \in 1..Len(box) |-> IF box[p].id \in outboxIds THEN [box[p] EXCEPT !.synced = TRUE]
                         ELSE box[p]]

incrementRetryCount(entry) == [entry EXCEPT !.retryCount = entry.retryCount + 1]

\* bulkUpsert with the tie resolved for the pulled record
bulkUpsert_orEqual(table, items) ==
  [i \in AllIds |->
     IF \E item \in items : item.id = i
     THEN LET item == CHOOSE it \in items : it.id = i
              existing == table[i]
          IN IF existing # NoRec
             THEN IF item.updated_at >= existing.updated_at THEN RecOf(item) ELSE existing
             ELSE RecOf(item)
     ELSE table[i]]

\* bulkUpsert: insert the unknown, overwrite the strictly older, keep the rest
bulkUpsert(table, items) ==
  [i \in AllIds |->
     IF \E item \in items : item.id = i
     THEN LET item == CHOOSE it \in items : it.id = i
              existing == table[i]
          IN IF existing # NoRec
             THEN IF item.updated_at > existing.updated_at THEN RecOf(item) ELSE existing
             ELSE RecOf(item)
     ELSE table[i]]

\* ------------------------------------------------------------------ sync engine
IntervalMaxRetries == 3
FocusMaxRetries == 1
OnlineMaxRetries == 3
DefaultMaxRetries == 3
ForceMaxRetries == 5

Triggers == {"interval", "focus", "online", "retry", "direct", "force"}
\* the callbacks that test isSyncing themselves before they call sync()
TimerTriggers == {"interval", "focus", "online", "retry"}

maxRetriesOf(c, trigger) ==
  CASE trigger = "interval" -> IntervalMaxRetries
    [] trigger = "focus" -> FocusMaxRetries
    [] trigger = "online" -> OnlineMaxRetries
    [] trigger = "retry" -> retryTimeout[c]
    [] trigger = "force" -> ForceMaxRetries
    [] OTHER -> DefaultMaxRetries

groupItemsByEntity(items) ==
  [k \in Kinds |->
     LET mine == SelectSeq(items, LAMBDA e : e.entity = k)
     IN [p \in 1..Len(mine) |-> mine[p].payload]]

\* applying the pull without its settings
applyServerChanges_listsOnly(tables, pull) ==
  [k \in Kinds |-> IF k = "settings" THEN tables[k] ELSE bulkUpsert(tables[k], pull[k])]

applyServerChanges(tables, pull) == [k \in Kinds |-> bulkUpsert(tables[k], pull[k])]

\* the cursor a failed round would write if it stored its result's lastSync
cursorAfterFailure_zero(c) == 0

\* a failed round does not touch syncState
cursorAfterFailure(c) == lastSync[c]

\* no re-entrancy guard
alreadySyncing_never(c) == FALSE

\* sync(): if (this.isSyncing) return 'Sync already in progress'
alreadySyncing(c) == isSyncing[c]

\* the end of a round without the finally block: a throw leaves the flag set
finish_noFinally(c, res) ==
  /\ isSyncing' = [isSyncing EXCEPT ![c] = res = "rejected"]
  /\ activeRounds' = [activeRounds EXCEPT ![c] = activeRounds[c] - 1]
  /\ round' = [round EXCEPT ![c] = NoRound]
  /\ net' = [net EXCEPT ![c] = NoNet]
  /\ result' = [client |-> c, outcome |-> res]

finish(c, res) ==
  /\ isSyncing' = [isSyncing EXCEPT ![c] = FALSE]
  /\ activeRounds' = [activeRounds EXCEPT ![c] = activeRounds[c] - 1]
  /\ round' = [round EXCEPT ![c] = NoRound]
  /\ net' = [net EXCEPT ![c] = NoNet]
  /\ result' = [client |-> c, outcome |-> res]

\* ------------------------------------------------------------------ the system
NoSkew == [m \in Machines |-> 0]
\* the clock of c1 runs ahead of the server's
Ahead == [NoSkew EXCEPT !["c1"] = MaxSkew]
\* the clocks of the clients run behind the server's
Behind == [NoSkew EXCEPT !["server"] = MaxSkew]

ClientsIdle ==
  /\ skew = NoSkew
  /\ local = [c \in Clients |-> EmptyDb]
  /\ outbox = [c \in Clients |-> <<>>]
  /\ lastSync = [c \in Clients |-> 0]
  /\ isSyncing = [c \in Clients |-> FALSE]
  /\ round = [c \in Clients |-> NoRound]
  /\ net = [c \in Clients |-> NoNet]
  /\ retryTimeout = [c \in Clients |-> NoTimer]
  /\ result = NoResult
  /\ activeRounds = [c \in Clients |-> 0]
  /\ fails = 0
  /\ scenario = [clients |-> {}, triggers |-> {}, muts |-> 0, fails |-> 0, skew |-> NoSkew]

\* AtomicDatabase.init(): the store holds the default settings and nothing else;
\* MiBudgetDatabase on('ready'): syncState = {lastSync: 0}
InitWith(sc) ==
  /\ clock = 1
  /\ skew = sc.skew
  /\ db = [EmptyDb EXCEPT !["settings"][DefaultId] =
             [val |-> <<"server", 0>>, updated_at |-> 1 + skew["server"], deleted |-> FALSE]]
  /\ call = NoCall
  /\ local = [c \in Clients |-> EmptyDb]
  /\ outbox = [c \in Clients |-> <<>>]
  /\ lastSync = [c \in Clients |-> 0]
  /\ isSyncing = [c \in Clients |-> FALSE]
  /\ round = [c \in Clients |-> NoRound]
  /\ net = [c \in Clients |-> NoNet]
  /\ retryTimeout = [c \in Clients |-> NoTimer]
  /\ result = NoResult
  /\ activeRounds = [c \in Clients |-> 0]
  /\ fails = 0
  /\ scenario = sc

\* two clients on their interval timers: MaxMut writes and a reliable network, with the
\* clocks in step or one of them ahead, or one write less and MaxFails failed rounds
Init ==
  \E sc \in {[clients |-> Clients, triggers |-> {"interval"}, muts |-> MaxMut,
               fails |-> 0, skew |-> NoSkew],
              [clients |-> Clients, triggers |-> {"interval"}, muts |-> MaxMut,
               fails |-> 0, skew |-> Ahead],
              [clients |-> Clients, triggers |-> {"interval"}, muts |-> MaxMut - 1,
               fails |-> MaxFails, skew |-> NoSkew]} : InitWith(sc)

\* one client with every trigger: MaxMut writes and MaxFails failed rounds, or one write
\* less and MaxFailsOne failed rounds, or MaxMut writes on a clock behind the server's
InitOne ==
  \E sc \in {[clients |-> {"c1"}, triggers |-> Triggers, muts |-> MaxMut,
               fails |-> MaxFails, skew |-> NoSkew],
              [clients |-> {"c1"}, triggers |-> Triggers, muts |-> MaxMut,
               fails |-> 0, skew |-> Behind],
              [clients |-> {"c1"}, triggers |-> Triggers, muts |-> MaxMut - 1,
               fails |-> MaxFailsOne, skew |-> NoSkew]} : InitWith(sc)

Tick ==
  /\ clock < MaxClock
  /\ clock' = clock + 1
  /\ result' = NoResult
  /\ UNCHANGED <<db, call, skew, local, outbox, lastSync, isSyncing, round, net, retryTimeout,
                 activeRounds, fails, scenario>>

\* generateId(): an id no replica has seen
Unseen(i) == \A k \in Kinds : db[k][i] = NoRec /\ \A d \in Clients : local[d][k][i] = NoRec
FreshId(i) == Unseen(i) /\ \A j \in Ids : j < i => ~Unseen(j)

Written(c, out) ==
  /\ local' = [local EXCEPT ![c] = out.local]
  /\ outbox' = [outbox EXCEPT ![c] = out.outbox]
  /\ result' = NoResult
  /\ UNCHANGED <<db, call, clock, skew, lastSync, isSyncing, round, net, retryTimeout,
                 activeRounds, fails, scenario>>

\* createTransaction, createBudget, ...: id = generateId(), updated_at = now()
CreateEntity(c) ==
  /\ c \in scenario.clients
  /\ Muts < scenario.muts
  /\ \E kind \in MutKinds, i \in Ids, pos \in 1..(Len(outbox[c]) + 1), failed \in BOOLEAN :
       /\ FreshId(i)
       /\ Written(c, createWithOutbox(c, kind,
                       [id |-> i, val |-> NextVal(c), updated_at |-> now(c), deleted |-> FALSE],
                       pos, failed))

\* updateTransaction, updateBudget, ...: nothing happens when the id is unknown
UpdateEntity(c) ==
  /\ c \in scenario.clients
  /\ Muts < scenario.muts
  /\ \E kind \in MutKinds, i \in Ids, pos \in 1..(Len(outbox[c]) + 1), failed \in BOOLEAN :
       /\ local[c][kind][i] # NoRec
       /\ Written(c, updateWithOutbox(c, kind, i, NextVal(c), pos, failed))

\* deleteTransaction, deleteBudget, ...: a soft delete
DeleteEntity(c) ==
  /\ c \in scenario.clients
  /\ Muts < scenario.muts
  /\ \E kind \in MutKinds, i \in Ids, pos \in 1..(Len(outbox[c]) + 1), failed \in BOOLEAN :
       /\ local[c][kind][i] # NoRec
       /\ Written(c, deleteWithOutbox(c, kind, i, pos, failed))

\* SyncEngine.sync(options), called online
sync(c, trigger, options) ==
  IF alreadySyncing(c)
  THEN /\ result' = [client |-> c, outcome |-> "Sync already in progress"]
       /\ UNCHANGED <<isSyncing, activeRounds, round, net>>
  ELSE LET unsyncedItems == getUnsyncedItems(outbox[c])
           itemsToSync == SelectSeq(unsyncedItems, LAMBDA e : e.retryCount < options.maxRetries)
           pullOnly == itemsToSync = <<>> /\ ~options.force
       IN /\ isSyncing' = [isSyncing EXCEPT ![c] = TRUE]
          /\ activeRounds' = [activeRounds EXCEPT ![c] = activeRounds[c] + 1]
          /\ round' = [round EXCEPT ![c] =
                         [auto |-> trigger \in TimerTriggers, maxRetries |-> options.maxRetries,
                          pullOnly |-> pullOnly,
                          items |-> [p \in 1..Len(itemsToSync) |-> itemsToSync[p].id]]]
          /\ net' = [net EXCEPT ![c] =
                       [NoNet EXCEPT !.stage = "request", !.since = lastSync[c],
                                     !.push = IF pullOnly THEN EmptyPush
                                              ELSE groupItemsByEntity(itemsToSync)]]
          /\ result' = NoResult

\* the interval timer, the focus and online handlers, the retry timer, a direct
\* sync() of a store action, forcSync()
SyncCall(c, trigger) ==
  /\ c \in scenario.clients
  /\ trigger \in scenario.triggers
  /\ trigger = "retry" => retryTimeout[c] # NoTimer
  /\ retryTimeout' = IF trigger = "retry" THEN [retryTimeout EXCEPT ![c] = NoTimer]
                     ELSE retryTimeout
  /\ IF trigger \in TimerTriggers /\ isSyncing[c]
     THEN result' = NoResult /\ UNCHANGED <<isSyncing, activeRounds, round, net>>
     ELSE sync(c, trigger, [maxRetries |-> maxRetriesOf(c, trigger), force |-> trigger = "force"])
  /\ UNCHANGED <<db, call, clock, skew, local, outbox, lastSync, fails, scenario>>

\* POST /api/sync, step 1: bulkSync(push) with serverTime = Date.now()
SrvBulkSync(c) ==
  /\ net[c].stage = "request"
  /\ LET out == bulkSync(db, net[c].push, serverNow)
     IN /\ db' = out.db
        /\ net' = [net EXCEPT ![c] = [@ EXCEPT !.stage = "applied",
                                                 !.serverTime = out.serverTime,
                                                 !.conflicts = out.conflicts]]
  /\ result' = NoResult
  /\ UNCHANGED <<call, clock, skew, local, outbox, lastSync, isSyncing, round, retryTimeout,
                 activeRounds, fails, scenario>>

\* POST /api/sync, steps 2 and 3: getSyncData(since), then the response
SrvGetSyncData(c) ==
  /\ net[c].stage = "applied"
  /\ net' = [net EXCEPT ![c] = [@ EXCEPT !.stage = "response",
                                           !.pull = getSyncData(db, net[c].since)]]
  /\ result' = NoResult
  /\ UNCHANGED <<db, call, clock, skew, local, outbox, lastSync, isSyncing, round,
                 retryTimeout, activeRounds, fails, scenario>>

\* the response arrives: markAsSynced, applyServerChanges, updateSyncState
RecvOk(c) ==
  /\ net[c].stage = "response"
  /\ isSyncing[c]
  /\ outbox' = [outbox EXCEPT ![c] =
                  IF round[c].pullOnly \/ round[c].items = <<>> THEN @
                  ELSE markAsSynced(@, {round[c].items[p] : p \in DOMAIN round[c].items})]
  /\ \E applyThrows \in {FALSE, fails < scenario.fails} :
       IF applyThrows
       THEN /\ fails' = fails + 1
            /\ UNCHANGED <<local, lastSync>>
            /\ finish(c, "Unknown sync error")
       ELSE /\ local' = [local EXCEPT ![c] = applyServerChanges(@, net[c].pull)]
            /\ lastSync' = [lastSync EXCEPT ![c] = net[c].serverTime]
            /\ UNCHANGED fails
            /\ finish(c, "success")
  /\ UNCHANGED <<db, call, clock, skew, retryTimeout, scenario>>

\* apiClient.sync throws ApiError: the request or the response is lost, or the server
\* answers with an error
RecvFail(c) ==
  /\ net[c].stage \in {"request", "applied", "response"}
  /\ isSyncing[c]
  /\ fails < scenario.fails
  /\ fails' = fails + 1
  /\ IF round[c].pullOnly
     THEN UNCHANGED <<outbox, retryTimeout>>
     ELSE /\ outbox' = [outbox EXCEPT ![c] =
                          [p \in 1..Len(@) |->
                             LET e == @[p]
                                 e1 == IF ~e.synced /\ e.retryCount < round[c].maxRetries
                                       THEN incrementRetryCount(e) ELSE e
                             IN IF \E q \in DOMAIN round[c].items : round[c].items[q] = e.id
                                THEN [e1 EXCEPT !.failed = e.failed + 1] ELSE e1]]
          /\ retryTimeout' = IF round[c].maxRetries > 0
                             THEN [retryTimeout EXCEPT ![c] = round[c].maxRetries - 1]
                             ELSE retryTimeout
  /\ lastSync' = [lastSync EXCEPT ![c] = cursorAfterFailure(c)]
  /\ finish(c, "ApiError")
  /\ UNCHANGED <<db, call, clock, skew, local, scenario>>

Next ==
  \/ Tick
  \/ \E c \in Clients : CreateEntity(c)
  \/ \E c \in Clients : UpdateEntity(c)
  \/ \E c \in Clients : DeleteEntity(c)
  \/ \E c \in Clients, trigger \in Triggers : SyncCall(c, trigger)
  \/ \E c \in Clients : SrvBulkSync(c)
  \/ \E c \in Clients : SrvGetSyncData(c)
  \/ \E c \in Clients : RecvOk(c)
  \/ \E c \in Clients : RecvFail(c)

Spec == Init /\ [][Next]_vars
SpecOne == InitOne /\ [][Next]_vars

\* ------------------------------------------------------------------ rounds that end
MaxFailsLive == 1

\* sync's catch block throws: db.getUnsyncedItems rejects, or db.incrementRetryCount
\* rejects after the first n entries were incremented; no retry is scheduled, the
\* finally block runs and the promise of sync() rejects
CatchThrows(c) ==
  /\ net[c].stage \in {"request", "applied", "response"}
  /\ isSyncing[c]
  /\ ~round[c].pullOnly
  /\ fails < scenario.fails
  /\ fails' = fails + 1
  /\ LET eligible == {p \in DOMAIN outbox[c] :
                        ~outbox[c][p].synced /\ outbox[c][p].retryCount < round[c].maxRetries}
     IN \E n \in 0..Cardinality(eligible) :
          /\ n < Cardinality(eligible) \/ n = 0
          /\ outbox' = [outbox EXCEPT ![c] =
                          [p \in 1..Len(@) |->
                             LET e == @[p]
                                 e1 == IF p \in eligible
                                          /\ Cardinality({q \in eligible : q < p}) < n
                                       THEN incrementRetryCount(e) ELSE e
                             IN IF \E q \in DOMAIN round[c].items : round[c].items[q] = e.id
                                THEN [e1 EXCEPT !.failed = e.failed + 1] ELSE e1]]
  /\ finish(c, "rejected")
  /\ UNCHANGED <<db, call, clock, skew, local, lastSync, retryTimeout, scenario>>

\* one client on its interval timer and forced syncs, MaxMut writes and MaxFailsLive
\* failures
InitLive ==
  InitWith([clients |-> {"c1"}, triggers |-> {"interval", "force"}, muts |-> MaxMut,
            fails |-> MaxFailsLive, skew |-> NoSkew])

NextLive ==
  \/ Next
  \/ \E c \in Clients : CatchThrows(c)

\* the server handles a request it has received and fetch() settles
Fairness ==
  \A c \in Clients :
    /\ WF_vars(SrvBulkSync(c))
    /\ WF_vars(SrvGetSyncData(c))
    /\ WF_vars(RecvOk(c))

SpecLive == InitLive /\ [][NextLive]_vars /\ Fairness

\* ------------------------------------------------------------------ bulkSync on its own
\* The inputs of one bulkSync call: a store the server can hold at serverTime
\* (every stored updated_at is an earlier server stamp), and a batch of one kind.
ItemFields == {[val |-> <<"a", 1>>, deleted |-> FALSE], [val |-> <<"b", 1>>, deleted |-> TRUE]}
ItemsOf(kind) ==
  {[id |-> i, val |-> f.val, updated_at |-> t, deleted |-> f.deleted] :
     i \in IdsOf(kind), f \in ItemFields, t \in Times}
BatchesOf(kind) ==
  UNION {[1..n -> ItemsOf(kind)] : n \in 0..MaxBatch}
StoredAt(serverTime) ==
  {NoRec} \cup {[val |-> <<"server", 0>>, updated_at |-> t, deleted |-> FALSE] : t \in 1..serverTime}
TablesOf(kind, serverTime) ==
  {[i \in AllIds |-> IF i \in IdsOf(kind) THEN f[i] ELSE NoRec] :
     f \in [IdsOf(kind) -> StoredAt(serverTime)]}
\* the kinds a call's batch does not touch hold one record each
OtherTable(kind) ==
  [i \in AllIds |-> IF i = CHOOSE j \in IdsOf(kind) : TRUE
                    THEN [val |-> <<"server", 0>>, updated_at |-> 1, deleted |-> FALSE]
                    ELSE NoRec]

InitSrv ==
  /\ ClientsIdle
  /\ clock \in Times
  /\ \E kind \in Kinds :
       /\ \E table \in TablesOf(kind, clock) :
            db = [k \in Kinds |-> IF k = kind THEN table ELSE OtherTable(k)]
       /\ \E batch \in BatchesOf(kind) :
            call = [kind |-> kind,
                    push |-> [k \in Kinds |-> IF k = kind THEN batch ELSE <<>>],
                    pre |-> db, conflicts |-> <<>>, done |-> FALSE]

\* one call of bulkSync with serverTime = Date.now()
CallBulkSync ==
  /\ call.kind # "none"
  /\ ~call.done
  /\ LET out == bulkSync(db, call.push, clock)
     IN /\ db' = out.db
        /\ call' = [call EXCEPT !.conflicts = out.conflicts, !.done = TRUE]
  /\ UNCHANGED <<clock, clientVars>>

NextSrv == CallBulkSync

SpecSrv == InitSrv /\ [][NextSrv]_vars

\* ------------------------------------------------------------------ the Express server
\* Database.bulkUpdate: settings[0] and every pushed record are stored as they come
RECURSIVE updateList(_, _)
updateList(table, items) ==
  IF items = <<>> THEN table
  ELSE updateList([table EXCEPT ![Head(items).id] = RecOf(Head(items))], Tail(items))

bulkUpdate(store, data) ==
  [k \in Kinds |->
     IF k = "settings"
     THEN IF data[k] = <<>> THEN store[k]
          ELSE [i \in AllIds |-> IF i = data[k][1].id THEN RecOf(data[k][1]) ELSE NoRec]
     ELSE updateList(store[k], data[k])]

\* Database.updateSettings / AtomicDatabase.updateSettings: the stored settings merged
\* with the request's fields and stamped with Date.now()
updateSettings(store, val, serverTime) ==
  [store EXCEPT !["settings"][DefaultId] =
     [val |-> val, updated_at |-> serverTime, deleted |-> @.deleted]]

\* app.post('/api/sync'): db.bulkUpdate(push), then getSyncData
PostApiSync ==
  /\ call.kind # "none"
  /\ ~call.done
  /\ db' = bulkUpdate(db, call.push)
  /\ call' = [call EXCEPT !.done = TRUE]
  /\ UNCHANGED <<clock, clientVars>>

\* app.put('/api/settings'): db.updateSettings(settingsData)
PutApiSettings ==
  /\ call.kind # "none"
  /\ ~call.done
  /\ \E f \in ItemFields : db' = updateSettings(db, f.val, clock)
  /\ call' = [call EXCEPT !.done = TRUE]
  /\ UNCHANGED <<clock, clientVars>>

NextExpress == PostApiSync \/ PutApiSettings

SpecExpress == InitSrv /\ [][NextExpress]_vars

\* ------------------------------------------------------------------ the sync endpoint
\* POST /api/sync on one request. In this specification call holds the request, the store
\* before it (pre), the handler's position (stage) and its response
MinSince == -1
NoResponse == [status |-> 0, error |-> "none", server_time |-> 0, pull |-> EmptyPull,
               conflicts |-> <<>>]

\* z.string().uuid(): the ids the clients generate are uuids, 'default' is not
IsUuid(id) == id \in Ids
\* BaseEntitySchema: id a uuid, updated_at a positive integer
BaseEntitySchema(item) == IsUuid(item.id) /\ item.updated_at > 0
\* SyncRequestSchema.parse succeeds: since non-negative and every pushed record valid
SyncRequestSchema(request) ==
  /\ request.since >= 0
  /\ \A k \in Kinds : \A p \in DOMAIN request.push[k] : BaseEntitySchema(request.push[k][p])

\* the handler that would apply the push before it validates the request
POST_validateAfterApply(store, request, serverTime) ==
  LET out == bulkSync(store, request.push, serverTime)
  IN IF ~SyncRequestSchema(request)
     THEN [db |-> out.db, stage |-> "responded",
           response |-> [NoResponse EXCEPT !.status = 422, !.error = "validation_error"]]
     ELSE [db |-> out.db, stage |-> "applied",
           response |-> [NoResponse EXCEPT !.server_time = out.serverTime,
                                           !.conflicts = out.conflicts]]

\* POST: SyncRequestSchema.parse(body), a ZodError answered with 422; else bulkSync(push)
POST(store, request, serverTime) ==
  IF ~SyncRequestSchema(request)
  THEN [db |-> store, stage |-> "responded",
        response |-> [NoResponse EXCEPT !.status = 422, !.error = "validation_error"]]
  ELSE LET out == bulkSync(store, request.push, serverTime)
       IN [db |-> out.db, stage |-> "applied",
           response |-> [NoResponse EXCEPT !.server_time = out.serverTime,
                                           !.conflicts = out.conflicts]]

\* the records a request may carry: updated_at 0 is not positive
RouteItemsOf(kind) ==
  {[id |-> i, val |-> <<"a", 1>>, updated_at |-> t, deleted |-> FALSE] :
     i \in IdsOf(kind), t \in 0..MaxClock}
RouteBatchesOf(kind) == UNION {[1..n -> RouteItemsOf(kind)] : n \in 0..MaxBatch}

InitRoute ==
  /\ ClientsIdle
  /\ clock \in 1..MaxClock
  /\ \E kind \in {"settings", "transactions"} :
       /\ \E table \in TablesOf(kind, clock) :
            db = [k \in Kinds |-> IF k = kind THEN table ELSE OtherTable(k)]
       /\ \E batch \in RouteBatchesOf(kind), since \in MinSince..1 :
            call = [kind |-> "route",
                    request |-> [since |-> since,
                                 push |-> [k \in Kinds |-> IF k = kind THEN batch ELSE <<>>]],
                    pre |-> db, stage |-> "received", response |-> NoResponse]

\* the handler up to the end of bulkSync, or to its 422 response
RoutePost ==
  /\ call.kind = "route"
  /\ call.stage = "received"
  /\ LET out == POST(db, call.request, clock)
     IN /\ db' = out.db
        /\ call' = [call EXCEPT !.stage = out.stage, !.response = out.response]
  /\ UNCHANGED <<clock, clientVars>>

\* the handler from getSyncData(since) to its response
RoutePull ==
  /\ call.kind = "route"
  /\ call.stage = "applied"
  /\ call' = [call EXCEPT !.stage = "responded",
                          !.response = [@ EXCEPT !.status = 200,
                                                 !.pull = getSyncData(db, call.request.since)]]
  /\ UNCHANGED <<db, clock, clientVars>>

NextRoute == RoutePost \/ RoutePull

SpecRoute == InitRoute /\ [][NextRoute]_vars

\* ------------------------------------------------------------------ the operation queue
\* AtomicDatabase.atomicWrite and processQueue under overlapping bulkSync calls. In this
\* specification call holds the server's operationQueue and isProcessing flag, each call's
\* position (pc), the operation a call running processQueue has shifted (proc), and the
\* operations executed and not rolled back, in order, with their serverTime (applied)
MaxWriteFails == 1
QueueOps == {"op1", "op2", "op3"}
NoProc == [current |-> "none", step |-> "none", backup |-> EmptyDb]
PushesOf(o) ==
  {[EmptyPush EXCEPT !["transactions"] =
      <<[id |-> i, val |-> <<o, 1>>, updated_at |-> t, deleted |-> FALSE]>>] :
     i \in Ids, t \in 1..MaxClock}

InitQueue ==
  /\ ClientsIdle
  /\ clock = 1
  /\ \E stored \in {NoRec, [val |-> <<"server", 0>>, updated_at |-> 1, deleted |-> FALSE]} :
       db = [EmptyDb EXCEPT !["settings"][DefaultId] =
                              [val |-> <<"server", 0>>, updated_at |-> 1, deleted |-> FALSE],
                            !["transactions"][1] = stored]
  /\ \E push \in [QueueOps -> UNION {PushesOf(o) : o \in QueueOps}] :
       /\ \A o \in QueueOps : push[o] \in PushesOf(o)
       /\ call = [kind |-> "queue", operationQueue |-> <<>>, isProcessing |-> FALSE,
                  pc |-> [o \in QueueOps |-> "idle"], proc |-> [o \in QueueOps |-> NoProc],
                  push |-> push, pre |-> db, applied |-> <<>>, failures |-> 0]

\* atomicWrite's test of the isProcessing flag
queueBusy_never == FALSE
queueBusy == call.isProcessing

\* processQueue's while loop at its head, run by call o on the queue q of state cl: it
\* shifts the next operation and backs the store up, or returns and atomicWrite's finally
\* clears isProcessing
processQueue(cl, o, q, store) ==
  IF q = <<>>
  THEN [cl EXCEPT !.operationQueue = q, !.isProcessing = FALSE,
                  !.pc[o] = "returned", !.proc[o] = NoProc]
  ELSE [cl EXCEPT !.operationQueue = Tail(q),
                  !.proc[o] = [current |-> Head(q), step |-> "operation", backup |-> store]]

\* bulkSync -> atomicWrite: queue the operation, then run processQueue or wait for it
AtomicWrite(o) ==
  /\ call.kind = "queue"
  /\ call.pc[o] = "idle"
  /\ LET q == Append(call.operationQueue, o)
     IN call' = IF ~queueBusy
                THEN processQueue([call EXCEPT !.isProcessing = TRUE, !.pc[o] = "processing"],
                                  o, q, db)
                ELSE [call EXCEPT !.operationQueue = q, !.pc[o] = "waiting"]
  /\ UNCHANGED <<db, clock, clientVars>>

\* processQueue: await operation.operation(), the body of bulkSync with
\* serverTime = Date.now()
ProcessOperation(o) ==
  /\ call.kind = "queue"
  /\ call.proc[o].step = "operation"
  /\ db' = bulkSync(db, call.push[call.proc[o].current], clock).db
  /\ call' = [call EXCEPT !.proc[o].step = "write",
                          !.applied = Append(@, [op |-> call.proc[o].current, time |-> clock])]
  /\ UNCHANGED <<clock, clientVars>>

\* processQueue: await this.db.write() resolves and the loop goes on
ProcessWritten(o) ==
  /\ call.kind = "queue"
  /\ call.proc[o].step = "write"
  /\ call' = processQueue(call, o, call.operationQueue, db)
  /\ UNCHANGED <<db, clock, clientVars>>

\* processQueue: this.db.write() rejects; the store is restored from the backup taken
\* before the operation and the error is thrown to the call that ran the loop
ProcessWriteFails(o) ==
  /\ call.kind = "queue"
  /\ call.proc[o].step = "write"
  /\ call.failures < MaxWriteFails
  /\ db' = call.proc[o].backup
  /\ call' = [call EXCEPT !.isProcessing = FALSE, !.pc[o] = "thrown", !.proc[o] = NoProc,
                          !.failures = @ + 1,
                          !.applied = SelectSeq(@, LAMBDA a : a.op # call.proc[o].current)]
  /\ UNCHANGED <<clock, clientVars>>

\* atomicWrite's setInterval callback: the operation has left the queue, resolve(undefined)
CheckQueue(o) ==
  /\ call.kind = "queue"
  /\ call.pc[o] = "waiting"
  /\ \A p \in DOMAIN call.operationQueue : call.operationQueue[p] # o
  /\ call' = [call EXCEPT !.pc[o] = "undefined"]
  /\ UNCHANGED <<db, clock, clientVars>>

TickQueue ==
  /\ clock < MaxClock
  /\ clock' = clock + 1
  /\ UNCHANGED <<db, call, clientVars>>

NextQueue ==
  \/ \E o \in QueueOps : AtomicWrite(o)
  \/ \E o \in QueueOps : ProcessOperation(o)
  \/ \E o \in QueueOps : ProcessWritten(o)
  \/ \E o \in QueueOps : ProcessWriteFails(o)
  \/ \E o \in QueueOps : CheckQueue(o)
  \/ TickQueue

SpecQueue == InitQueue /\ [][NextQueue]_vars

\* the store after the operations of a list have run one after the other
RECURSIVE Serial(_, _, _)
Serial(store, push, ops) ==
  IF ops = <<>> THEN store
  ELSE Serial(bulkSync(store, push[Head(ops).op], Head(ops).time).db, push, Tail(ops))

\* ------------------------------------------------------------------ settings through the endpoint
\* MiBudgetDatabase.updateSettings: the latest local settings are updated, or settings with
\* the id 'default' are created
UpdateSettings(c) ==
  /\ c \in scenario.clients
  /\ Muts < scenario.muts
  /\ \E pos \in 1..(Len(outbox[c]) + 1), failed \in BOOLEAN :
       LET existing == local[c]["settings"][DefaultId]
       IN IF existing # NoRec /\ ~existing.deleted
          THEN Written(c, updateWithOutbox(c, "settings", DefaultId, NextVal(c), pos, failed))
          ELSE Written(c, createWithOutbox(c, "settings",
                            [id |-> DefaultId, val |-> NextVal(c), updated_at |-> now(c),
                             deleted |-> FALSE],
                            pos, failed))

\* POST /api/sync up to the end of bulkSync, or to its 422 response
SrvPost(c) ==
  /\ net[c].stage = "request"
  /\ LET out == POST(db, [since |-> net[c].since, push |-> net[c].push], serverNow)
     IN /\ db' = out.db
        /\ net' = [net EXCEPT ![c] =
                     IF out.response.status = 422 THEN [@ EXCEPT !.stage = "invalid"]
                     ELSE [@ EXCEPT !.stage = "applied",
                                    !.serverTime = out.response.server_time,
                                    !.conflicts = out.response.conflicts]]
  /\ result' = NoResult
  /\ UNCHANGED <<call, clock, skew, local, outbox, lastSync, isSyncing, round, retryTimeout,
                 activeRounds, fails, scenario>>

\* the 422 response reaches the client: ApiError, sync's catch block
RecvValidationError(c) ==
  /\ net[c].stage = "invalid"
  /\ isSyncing[c]
  /\ outbox' = [outbox EXCEPT ![c] =
                  [p \in 1..Len(@) |->
                     LET e == @[p]
                         e1 == IF ~e.synced /\ e.retryCount < round[c].maxRetries
                               THEN incrementRetryCount(e) ELSE e
                     IN IF \E q \in DOMAIN round[c].items : round[c].items[q] = e.id
                        THEN [e1 EXCEPT !.failed = e.failed + 1] ELSE e1]]
  /\ retryTimeout' = IF round[c].maxRetries > 0
                     THEN [retryTimeout EXCEPT ![c] = round[c].maxRetries - 1]
                     ELSE retryTimeout
  /\ finish(c, "ApiError")
  /\ UNCHANGED <<db, call, clock, skew, local, lastSync, fails, scenario>>

\* one client on its interval timer and its retries, MaxMut writes, a reliable network
InitSettings ==
  InitWith([clients |-> {"c1"}, triggers |-> {"interval", "retry"}, muts |-> MaxMut,
            fails |-> 0, skew |-> NoSkew])

NextSettings ==
  \/ Tick
  \/ \E c \in Clients : CreateEntity(c)
  \/ \E c \in Clients : UpdateSettings(c)
  \/ \E c \in Clients, trigger \in Triggers : SyncCall(c, trigger)
  \/ \E c \in Clients : SrvPost(c)
  \/ \E c \in Clients : SrvGetSyncData(c)
  \/ \E c \in Clients : RecvOk(c)
  \/ \E c \in Clients : RecvValidationError(c)

SpecSettings == InitSettings /\ [][NextSettings]_vars

\* ------------------------------------------------------------------ a push sent twice
\* the response to a push was lost and the client sends the same entries again: bulkSync
\* runs a second time on the same batch; first is the store after the first application
ReplayBulkSync ==
  /\ call.kind # "none"
  /\ call.done
  /\ "first" \notin DOMAIN call
  /\ LET out == bulkSync(db, call.push, clock)
     IN /\ db' = out.db
        /\ call' = [kind |-> call.kind, push |-> call.push, pre |-> call.pre,
                    conflicts |-> out.conflicts, done |-> TRUE, first |-> db]
  /\ UNCHANGED <<clock, clientVars>>

NextReplay == CallBulkSync \/ Tick \/ ReplayBulkSync

SpecReplay == InitSrv /\ [][NextReplay]_vars

\* ------------------------------------------------------------------ claims on bulkSync
CallBatch == call.push[call.kind]
PreRec(i) == call.pre[call.kind][i]
PostRec(i) == db[call.kind][i]
Positions == 1..Len(CallBatch)
PositionsOf(i) == {p \in Positions : CallBatch[p].id = i}
ConflictsOf(i) == {q \in 1..Len(call.conflicts) : call.conflicts[q].id = i}
\* every record of the batch with this id is older than the stored record
AllStale(i) ==
  /\ PreRec(i) # NoRec
  /\ PositionsOf(i) # {}
  /\ \A p \in PositionsOf(i) : PreRec(i).updated_at > CallBatch[p].updated_at
\* the records bulkSync compares: all of a list kind, the first of settings
Compared(p) == call.kind # "settings" \/ p = 1

\* C3: a pushed record that is older than the stored record of its id leaves that
\* stored record unchanged in every field, for every entity kind.
C3_StaleLeavesRecordUnchanged ==
  call.done => \A i \in AllIds : AllStale(i) => PostRec(i) = PreRec(i)

C3_Witness ==
  /\ call.done
  /\ call.kind = "goals"
  /\ \E i \in Ids : AllStale(i) /\ PostRec(i) = PreRec(i) /\ PreRec(i).updated_at < clock

\* C4: every record rejected as stale yields exactly one conflict entry
\* {reason 'server_newer', clientTime = incoming, serverTime = existing}, for every kind.
C4_EveryRejectionReported ==
  call.done =>
    \A i \in AllIds : AllStale(i) =>
      /\ Cardinality(ConflictsOf(i)) = Cardinality({p \in PositionsOf(i) : Compared(p)})
      /\ \A p \in PositionsOf(i) : Compared(p) =>
            \E q \in ConflictsOf(i) :
              /\ call.conflicts[q].reason = "server_newer"
              /\ call.conflicts[q].clientTime = CallBatch[p].updated_at
              /\ call.conflicts[q].serverTime = PreRec(i).updated_at

Content(r) == [val |-> r.val, deleted |-> r.deleted]
Entries(c) == {outbox[c][p] : p \in DOMAIN outbox[c]}
EntriesAfter(c) == {outbox'[c][p] : p \in DOMAIN outbox'[c]}
RoundItems(c) == {round[c].items[p] : p \in DOMAIN round[c].items}

\* nothing is left to push and none of the clients has anything left to pull: further
\* successful rounds change no replica
Quiesced ==
  \A c \in scenario.clients :
    /\ ~isSyncing[c]
    /\ \A e \in Entries(c) : e.synced
    /\ \A k \in Kinds : getSyncData(db, lastSync[c])[k] = {}

\* the versions of record i of kind k ever written on a client: the outbox keeps them all
Versions(k, i) ==
  {e.payload : e \in {f \in UNION {Entries(c) : c \in Clients} :
                         f.entity = k /\ f.payload.id = i}}
Latest(k, i) == {v \in Versions(k, i) : \A w \in Versions(k, i) : w.updated_at <= v.updated_at}

\* C1: once nothing is left to push or to pull, the server and every client hold the same
\* record for every id, and it is a version with the greatest updated_at ever written
C1_Converged ==
  Quiesced => \A k \in Kinds, i \in AllIds :
                /\ \A c \in scenario.clients : Content(local[c][k][i]) = Content(db[k][i])
                /\ Versions(k, i) # {} =>
                     \E v \in Latest(k, i) : Content(db[k][i]) = Content(RecOf(v))

\* C2: a record whose latest local edit is still unsynced in the outbox holds that edit's
\* value in the local table
C2_UnpushedEditKept ==
  \A c \in Clients : \A e \in Entries(c) :
    (/\ ~e.synced
     /\ \A f \in Entries(c) : (f.entity = e.entity /\ f.payload.id = e.payload.id) => f.id <= e.id)
    => local[c][e.entity][e.payload.id] = RecOf(e.payload)

\* C6: a create, update or soft delete changes the entity table and adds one outbox
\* entry (synced = false, retryCount = 0, payload = the record as stored) in one step, or
\* it changes neither; the table changes without a new entry only when a pull is applied
C6_AtomicEnqueue ==
  [][\A c \in Clients :
       LET added == EntriesAfter(c) \ Entries(c)
           isNew(e) == \A f \in Entries(c) : f.id # e.id
       IN /\ Len(outbox'[c]) - Len(outbox[c]) \in {0, 1}
          /\ Len(outbox'[c]) = Len(outbox[c]) + 1 =>
               \E e \in added :
                 /\ isNew(e)
                 /\ ~e.synced /\ e.retryCount = 0
                 /\ local'[c][e.entity][e.payload.id] = RecOf(e.payload)
                 /\ \A k \in Kinds, i \in AllIds :
                      <<k, i>> # <<e.entity, e.payload.id>> => local'[c][k][i] = local[c][k][i]
                 /\ EntriesAfter(c) = Entries(c) \cup {e}
          /\ (Len(outbox'[c]) = Len(outbox[c]) /\ local'[c] # local[c]) => RecvOk(c)
    ]_vars

C6_Witness ==
  \E c \in Clients : \E e \in Entries(c) :
    /\ e.operation = "delete"
    /\ ~e.synced
    /\ local[c][e.entity][e.payload.id] = RecOf(e.payload)
    /\ local[c][e.entity][e.payload.id].deleted

\* C7: a client never has two rounds in progress; sync() called during a round returns
\* 'Sync already in progress', starts no round, sends no request and leaves nothing
\* behind to run later
C7_OneRoundAtATime ==
  [][\A c \in Clients :
       /\ activeRounds'[c] <= 1
       /\ \A trigger \in Triggers \ TimerTriggers :
            (isSyncing[c] /\ SyncCall(c, trigger)) =>
              /\ result' = [client |-> c, outcome |-> "Sync already in progress"]
              /\ UNCHANGED <<db, local, outbox, lastSync, isSyncing, round, net, retryTimeout,
                             activeRounds>>
       /\ \A trigger \in TimerTriggers :
            (isSyncing[c] /\ SyncCall(c, trigger)) =>
              UNCHANGED <<db, local, outbox, lastSync, isSyncing, round, net, activeRounds>>
    ]_vars

C7_Witness ==
  /\ result.outcome = "Sync already in progress"
  /\ isSyncing[result.client]
  /\ net[result.client].stage = "request"

C9_CursorMonotone ==
  [][\A c \in Clients :
       /\ lastSync'[c] >= lastSync[c]
       /\ (result'.client = c /\ result'.outcome # "success") => lastSync'[c] = lastSync[c]
    ]_vars

C9_Witness ==
  /\ result.outcome = "ApiError"
  /\ lastSync[result.client] > 0
  /\ \E k \in Kinds : getSyncData(db, lastSync[result.client])[k] # {}

\* C10: an entry whose push has failed DefaultMaxRetries times is in the push of no round
\* started by the interval timer, a focus or online event or a backoff retry
C10_RetryCapRespected ==
  \A c \in Clients :
    (isSyncing[c] /\ round[c].auto) =>
      \A e \in Entries(c) : e.id \in RoundItems(c) => e.failed < DefaultMaxRetries

\* ------------------------------------------------------------------ claims C11 - C20
\* a pushed record that is the only one of its id in its batch
OnlyOfItsId(batch, p) == \A q \in DOMAIN batch : batch[q].id = batch[p].id => q = p

KindOfConflict(type) ==
  CASE type = "settings" -> "settings"
    [] type = "category" -> "categories"
    [] type = "transaction" -> "transactions"
    [] OTHER -> type

\* C12: when a successful round ends, no record of its push that the server rejected as
\* 'server_newer' is still the local copy while the server holds other content that no
\* later pull returns (the server's record is not newer than the new cursor)
C12_RejectedValueReplaced ==
  [][\A c \in Clients :
       (RecvOk(c) /\ result'.outcome = "success") =>
         \A q \in DOMAIN net[c].conflicts :
           LET k == KindOfConflict(net[c].conflicts[q].type)
               i == net[c].conflicts[q].id
               rejected == {item \in {net[c].push[k][p] : p \in DOMAIN net[c].push[k]} :
                              item.id = i /\ item.updated_at = net[c].conflicts[q].clientTime}
           IN \A item \in rejected :
                local'[c][k][i] = RecOf(item) =>
                  \/ Content(db[k][i]) = Content(RecOf(item))
                  \/ db[k][i].updated_at > lastSync'[c]
    ]_vars

\* C13: applying a pull merges each pulled record by bulkUpsert's rule: it is inserted when
\* the client has no record of that id, it replaces the local record when its updated_at is
\* greater, and the local record is kept when the pulled updated_at is equal or smaller;
\* records of ids the pull does not carry are left alone
C13_PullMergeRule ==
  [][\A c \in Clients :
       (RecvOk(c) /\ result'.outcome = "success") =>
         \A k \in Kinds, i \in AllIds :
           LET pulled == {item \in net[c].pull[k] : item.id = i}
               existing == local[c][k][i]
           IN /\ pulled = {} => local'[c][k][i] = existing
              /\ \A item \in pulled :
                   /\ existing = NoRec => local'[c][k][i] = RecOf(item)
                   /\ (existing # NoRec /\ item.updated_at > existing.updated_at)
                        => local'[c][k][i] = RecOf(item)
                   /\ (existing # NoRec /\ item.updated_at <= existing.updated_at)
                        => local'[c][k][i] = existing
    ]_vars

\* a client that has written record i itself now holds another client's version of it
C13_Witness ==
  \E c \in Clients, k \in ListKinds, i \in Ids :
    /\ result = [client |-> c, outcome |-> "success"]
    /\ \E e \in Entries(c) : e.payload.id = i
    /\ local[c][k][i] # NoRec
    /\ local[c][k][i].val[1] \in Clients \ {c}

\* the records a store holds with updated_at greater than since, of every kind
ChangedSince(store, since) ==
  [k \in Kinds |-> {Item(i, store[k][i]) :
                      i \in {j \in AllIds : store[k][j] # NoRec /\ store[k][j].updated_at > since}}]

\* C14: the pull of a request with cursor T carries, for every kind, exactly the server's
\* records whose updated_at is greater than T, tombstones included; a record whose
\* updated_at equals T is never returned
C14_PullIsExactlyNewer ==
  [][\A c \in Clients :
       SrvGetSyncData(c) =>
         /\ net'[c].pull = ChangedSince(db, net[c].since)
         /\ \A k \in Kinds : \A item \in net'[c].pull[k] : item.updated_at # net[c].since
    ]_vars

\* a response is ready that carries a tombstone and leaves out a record stamped exactly
\* with the request's cursor
C14_Witness ==
  \E c \in Clients :
    /\ net[c].stage = "response"
    /\ net[c].pull = ChangedSince(db, net[c].since)
    /\ \E k \in Kinds : \E item \in net[c].pull[k] : item.deleted
    /\ \E k \in Kinds, i \in AllIds : db[k][i] # NoRec /\ db[k][i].updated_at = net[c].since

\* C15: reading changes does not modify the server store and a second read with the same
\* cursor returns the same records; a sync request with an empty push leaves the store as
\* it was, so that every cursor reads after it what it read before it
C15_PullIdempotent ==
  [][\A c \in Clients :
       /\ SrvGetSyncData(c) =>
            /\ db' = db
            /\ getSyncData(db', net[c].since) = net'[c].pull
       /\ (SrvBulkSync(c) /\ net[c].push = EmptyPush) =>
            /\ db' = db
            /\ net'[c].conflicts = <<>>
            /\ \A T \in Times : getSyncData(db', T) = getSyncData(db, T)
    ]_vars

\* two requests with an empty push and the same cursor have been answered with no write
\* between them, and both responses carry the same non-empty pull
C15_Witness ==
  \E c1 \in Clients : \E c2 \in Clients \ {c1} :
    /\ net[c1].stage = "response" /\ net[c2].stage = "response"
    /\ net[c1].push = EmptyPush /\ net[c2].push = EmptyPush
    /\ net[c1].since = net[c2].since
    /\ net[c1].pull = net[c2].pull
    /\ net[c1].pull = getSyncData(db, net[c1].since)
    /\ \E k \in Kinds : net[c1].pull[k] # {}

\* the batch of a call reduced to its records of one id
BatchOfId(i) == SelectSeq(CallBatch, LAMBDA r : r.id = i)
\* the conflicts of a list that concern one id, or one entity kind
ConflictsAbout(conflicts, i) == SelectSeq(conflicts, LAMBDA q : q.id = i)
ConflictsOfType(conflicts, kind) == SelectSeq(conflicts, LAMBDA q : q.type = ConflictType(kind))

\* C16: bulkSync resolves each record of a batch on its own: the stored record and the
\* conflicts it ends with for an id are those it ends with when the batch holds the records
\* of that id alone, and they are the same when one more record of another entity kind,
\* accepted or rejected, is pushed with the batch
C16_RecordsResolvedIndependently ==
  call.done =>
    /\ \A i \in IdsOf(call.kind) :
         LET alone == bulkSync(call.pre, [call.push EXCEPT ![call.kind] = BatchOfId(i)], clock)
         IN /\ PostRec(i) = alone.db[call.kind][i]
            /\ ConflictsAbout(call.conflicts, i) = alone.conflicts
    /\ \A k \in Kinds \ {call.kind} :
         /\ db[k] = call.pre[k]
         /\ \A other \in ItemsOf(k) :
              LET both == bulkSync(call.pre, [call.push EXCEPT ![k] = <<other>>], clock)
              IN /\ both.db[call.kind] = db[call.kind]
                 /\ ConflictsOfType(both.conflicts, call.kind) = call.conflicts

\* a batch of two records with different ids whose first record was rejected and whose
\* second record was stored
C16_Witness ==
  /\ call.done
  /\ Len(CallBatch) = 2
  /\ CallBatch[1].id # CallBatch[2].id
  /\ PreRec(CallBatch[1].id) # NoRec
  /\ PreRec(CallBatch[1].id).updated_at > CallBatch[1].updated_at
  /\ PostRec(CallBatch[1].id) = PreRec(CallBatch[1].id)
  /\ PostRec(CallBatch[2].id) = Stamp(CallBatch[2], clock)

\* C17: when bulkSync calls overlap, at most one call runs the queue at a time and the
\* store is the one that some serial order of the operations produces: the order in which
\* the queue executed them, leaving out an operation whose write failed and was rolled back
C17_OverlappingCallsSerialised ==
  call.kind = "queue" =>
    /\ Cardinality({o \in QueueOps : call.pc[o] = "processing"}) <= 1
    /\ \A o \in QueueOps : call.proc[o].step = "operation" => db = call.proc[o].backup
    /\ db = Serial(call.pre, call.push, call.applied)

\* three overlapping calls: one ran the queue, another's operation ran while it waited,
\* one write failed, and the operations kept changed the store
C17_Witness ==
  /\ call.kind = "queue"
  /\ Len(call.applied) >= 2
  /\ call.failures > 0
  /\ \E o \in QueueOps : call.pc[o] = "undefined" /\ \E p \in DOMAIN call.applied : call.applied[p].op = o
  /\ db["transactions"] # call.pre["transactions"]
  /\ \E p \in DOMAIN call.applied :
       db["transactions"][1].val = <<call.applied[p].op, 1>> /\ p < Len(call.applied)

\* C18: on the server and on every client the updated_at of a stored record never
\* decreases: no step replaces a stored record with one of a smaller updated_at
C18_UpdatedAtNeverDecreases ==
  [][\A k \in Kinds, i \in AllIds :
       /\ db[k][i] # NoRec => db'[k][i].updated_at >= db[k][i].updated_at
       /\ \A c \in Clients :
            local[c][k][i] # NoRec => local'[c][k][i].updated_at >= local[c][k][i].updated_at
    ]_vars

\* C19: no request to the sync endpoint or to the settings endpoint replaces a stored
\* record of the server with a value older than itself: after the request every record
\* stored before it has an updated_at at least as great as before
C19_NoWriteWithoutComparison ==
  call.done =>
    \A k \in Kinds, i \in AllIds :
      call.pre[k][i] # NoRec => db[k][i].updated_at >= call.pre[k][i].updated_at

\* a pushed record that breaks the schema on its own
Malformed(item) == ~IsUuid(item.id) \/ item.updated_at <= 0
RequestMalformed ==
  \/ call.request.since < 0
  \/ \E k \in Kinds : \E p \in DOMAIN call.request.push[k] : Malformed(call.request.push[k][p])

\* C20: a sync request that fails schema validation is answered with status 422 and error
\* 'validation_error', and the server store stays as it was before the request: no record
\* of the batch is applied and no updated_at is re-stamped
C20_InvalidRequestHasNoEffect ==
  (call.kind = "route" /\ call.stage # "received" /\ RequestMalformed) =>
    /\ call.stage = "responded"
    /\ call.response.status = 422
    /\ call.response.error = "validation_error"
    /\ call.response.pull = EmptyPull
    /\ db = call.pre

\* a rejected request whose batch holds a malformed record and a well-formed record that
\* bulkSync would have stored
C20_Witness ==
  /\ call.kind = "route"
  /\ call.stage = "responded"
  /\ call.response.status = 422
  /\ call.request.since >= 0
  /\ \E p \in DOMAIN call.request.push["transactions"] :
       LET item == call.request.push["transactions"][p]
       IN /\ ~Malformed(item)
          /\ ~ServerNewer(call.pre["transactions"][item.id], item)
          /\ db["transactions"][item.id] = call.pre["transactions"][item.id]
          /\ db["transactions"][item.id] # Stamp(item, clock)

\* ------------------------------------------------------------------ claims C21 - C30
\* C21: every round that sets isSyncing ends with isSyncing = false, whether it succeeds,
\* the server call fails, the pull-only path fails, applying the pull throws, or the
\* failure handler itself throws while it increments retry counts
C21_RoundReturnsToIdle == \A c \in Clients : isSyncing[c] ~> ~isSyncing[c]

\* a round has ended by a throw inside the failure handler, and the engine is idle
C21_Witness ==
  \E c \in Clients :
    /\ result = [client |-> c, outcome |-> "rejected"]
    /\ ~isSyncing[c]
    /\ \E e \in Entries(c) : e.retryCount < e.failed

\* the entries of the round in flight that carry a mutation of record i of kind k
QueuedFor(c, k, i) ==
  {e \in Entries(c) : e.id \in RoundItems(c) /\ e.entity = k /\ e.payload.id = i}
\* the one enqueued last: entries are numbered in the order of their creation
LastEnqueued(c, k, i) ==
  CHOOSE e \in QueuedFor(c, k, i) : \A f \in QueuedFor(c, k, i) : f.id <= e.id

\* C22: when a round pushes several mutations of one id, the server's record of that id
\* carries, once the push has been applied, the fields of the mutation enqueued last
C22_LastMutationWins ==
  [][\A c \in Clients :
       SrvBulkSync(c) =>
         \A k \in Kinds, i \in AllIds :
           Cardinality(QueuedFor(c, k, i)) >= 2 =>
             Content(db'[k][i]) = Content(RecOf(LastEnqueued(c, k, i).payload))
    ]_vars

\* C23: when a push round fails, the retry count of every outbox entry that was in the
\* attempted push grows by exactly one and the retry count of every other entry, such as
\* one enqueued while the request was in flight, stays as it was
C23_RetryCountOfAttemptedOnly ==
  [][\A c \in Clients :
       (RecvFail(c) /\ ~round[c].pullOnly) =>
         \A p \in DOMAIN outbox[c] :
           outbox'[c][p].retryCount =
             IF outbox[c][p].id \in RoundItems(c) THEN outbox[c][p].retryCount + 1
             ELSE outbox[c][p].retryCount
    ]_vars

\* sync's catch block: Math.min(30000, 1000 * Math.pow(2, maxRetries - 1)), in ms
retryDelay(maxRetries) ==
  LET d == 1000 * 2 ^ (maxRetries - 1) IN IF d < 30000 THEN d ELSE 30000
\* the delay the claim states for a number of failures
backoff(attempt) == LET d == 1000 * 2 ^ attempt IN IF d < 30000 THEN d ELSE 30000

\* C24: the retry scheduled after a failed push round waits min(30 s, 1 s * 2^attempt),
\* attempt being the number of failures of the pushed entries so far (counted without or
\* with the failure at hand), and the retry it schedules, should it fail too, schedules a
\* delay that is not shorter
C24_BackoffGrows ==
  [][\A c \in Clients :
       (RecvFail(c) /\ ~round[c].pullOnly /\ round[c].maxRetries > 0) =>
         /\ \A e \in Entries(c) :
              e.id \in RoundItems(c) =>
                retryDelay(round[c].maxRetries) \in {backoff(e.failed), backoff(e.failed + 1)}
         /\ retryTimeout'[c] > 0 =>
              retryDelay(retryTimeout'[c]) >= retryDelay(round[c].maxRetries)
    ]_vars

\* C25: when a push round succeeds, every outbox entry of its push is synced, every kind's
\* pulled records have been merged into the local table and lastSync is the response's
\* server_time; when applying the pull throws, lastSync keeps its old value
C25_SuccessPath ==
  [][\A c \in Clients :
       RecvOk(c) =>
         /\ (result'.outcome = "success" /\ ~round[c].pullOnly) =>
              /\ \A e \in EntriesAfter(c) : e.id \in RoundItems(c) => e.synced
              /\ \A k \in Kinds : local'[c][k] = bulkUpsert(local[c][k], net[c].pull[k])
              /\ lastSync'[c] = net[c].serverTime
         /\ result'.outcome # "success" => lastSync'[c] = lastSync[c]
    ]_vars

\* a push round has succeeded: its entries are synced, the settings and the client's own
\* record have come with the pull and the cursor has advanced
C25_Witness ==
  \E c \in Clients :
    /\ result = [client |-> c, outcome |-> "success"]
    /\ lastSync[c] > 0
    /\ Entries(c) # {}
    /\ \A e \in Entries(c) : e.synced
    /\ local[c]["settings"][DefaultId] = db["settings"][DefaultId]
    /\ \E i \in Ids : local[c]["transactions"][i] # NoRec
                      /\ local[c]["transactions"][i] = db["transactions"][i]

\* the outbox entry of a client with a given id
EntryOf(c, id) == CHOOSE e \in Entries(c) : e.id = id

\* C26: the entries a round selects for its push are exactly the outbox entries with
\* synced = false and retryCount < maxRetries, each once, in ascending order of createdAt,
\* and the push lists under each entity kind the payloads of the selected entries of that
\* kind, each once and in that order
C26_SelectionInCreationOrder ==
  [][\A c \in Clients :
       (~isSyncing[c] /\ isSyncing'[c] /\ ~round'[c].pullOnly) =>
         LET items == round'[c].items
             selected == [p \in DOMAIN items |-> EntryOf(c, items[p])]
         IN /\ {items[p] : p \in DOMAIN items} =
                 {e.id : e \in {f \in Entries(c) :
                                  ~f.synced /\ f.retryCount < round'[c].maxRetries}}
            /\ \A p, q \in DOMAIN items : p # q => items[p] # items[q]
            /\ \A p, q \in DOMAIN items :
                 p < q => selected[p].createdAt <= selected[q].createdAt
            /\ \A k \in Kinds :
                 LET mine == SelectSeq(selected, LAMBDA e : e.entity = k)
                 IN net'[c].push[k] = [p \in DOMAIN mine |-> mine[p].payload]
    ]_vars

\* C27: a bulkSync call whose operation was applied to the store and whose promise has
\* settled has returned the serverTime and conflicts of its own operation: it has neither
\* resolved with nothing, which the sync endpoint answers with status 500, nor rejected
C27_OwnResultReturned ==
  call.kind = "queue" =>
    \A o \in QueueOps :
      ((\E p \in DOMAIN call.applied : call.applied[p].op = o)
         /\ call.pc[o] \notin {"processing", "waiting"})
        => call.pc[o] = "returned"

\* C28: once a client's cursor has been advanced, every record version the server holds
\* with updated_at <= that cursor has reached the client: the client holds the record with
\* an updated_at at least as great, so no version is left that a pull of records with
\* updated_at > cursor would have to return
C28_CursorSkipsNothing ==
  \A c \in scenario.clients :
    lastSync[c] > 0 =>
      \A k \in Kinds, i \in AllIds :
        (db[k][i] # NoRec /\ db[k][i].updated_at <= lastSync[c]) =>
          /\ local[c][k][i] # NoRec
          /\ local[c][k][i].updated_at >= db[k][i].updated_at

\* C29: every payload a client has enqueued through its own create, update and delete
\* operations, the settings with the id 'default' included, satisfies the schema of the
\* sync request, and no push of a client is answered with a validation error
C29_LocalPayloadsPassSchema ==
  \A c \in Clients :
    /\ \A e \in Entries(c) : BaseEntitySchema(e.payload)
    /\ net[c].stage # "invalid"

\* C30: when a batch the server has applied is applied a second time, every record of the
\* server has the content it had after the first application: no record appears or
\* disappears and no field other than updated_at changes
C30_ReplayKeepsContent ==
  "first" \in DOMAIN call =>
    \A k \in Kinds, i \in AllIds :
      /\ (db[k][i] = NoRec) = (call.first[k][i] = NoRec)
      /\ Content(db[k][i]) = Content(call.first[k][i])

============================================================================
